---- MODULE Spec2Model ----
(***************************************************************************)
(* A model of app.py: the guestbook service.  Three HTTP handlers (index,  *)
(* submit, health) and the schema initializer init_db, each a short run of *)
(* store calls (cursor, execute, fetchall, commit, close) wrapped in one   *)
(* try/except.  Every store call may raise.  Requests are served one per   *)
(* thread.  The store is the MySQL table messages(id, message,             *)
(* created_at): AUTO_INCREMENT id, created_at of one-second resolution set *)
(* when the INSERT executes, rows visible to others once committed.        *)
(*                                                                         *)
(* index, health and init_db touch the shared table in one statement, so   *)
(* each is one action that runs the handler up to the call that raises (or *)
(* to its return).  submit touches it twice, when the INSERT executes (id  *)
(* and created_at are assigned) and when it commits, so it is two actions  *)
(* and other requests run in between.  The model keeps the outcome of the  *)
(* request that returned last.                                             *)
(***************************************************************************)
EXTENDS Integers, Sequences, FiniteSets, TLC

\* ---------------------------------------------------------------- bounds
MaxSubmits == 2          \* accepted (validated) submissions per behaviour
MaxClock == 1            \* seconds the store clock may advance

\* ------------------------------------------------------ program constants
Limit == 50              \* LIMIT 50 of the SELECT in index()

Workers == {"t1", "t2"}  \* request threads
None == "None"           \* Python's None
Messages == {"a", "b"}   \* non-empty message texts
NewMessageValues == {None, ""} \cup Messages
BodyKinds == {"json", "form", "json_malformed"}
StoreErrors == {"OperationalError", "ProgrammingError"}

MessagesColumns == <<"id", "message", "created_at">>
MessagesTable == [name |-> "messages", columns |-> MessagesColumns]

VARIABLES
  tables,    \* the tables of the database flask_db
  rows,      \* committed rows of messages, in commit order
  nextId,    \* the AUTO_INCREMENT counter of messages
  clock,     \* CURRENT_TIMESTAMP, in seconds
  submits,   \* accepted submissions so far (bounds the behaviour)
  pc,        \* per thread: "idle", or "commit" inside submit()
  req,       \* per thread: the request being handled
  cur,       \* per thread: the cursor `cur` ("none", "open", "closed")
  txn,       \* per thread: rows inserted on its connection, not committed
  returned   \* the request that returned last: what it was, what it was
             \* answered, its cursor at the return, the call that raised,
             \* the store calls it made, the local `messages` of index()

storeVars == <<tables, rows, nextId, clock>>
threadVars == <<pc, req, cur, txn>>
vars == <<tables, rows, nextId, clock, submits, pc, req, cur, txn, returned>>

\* ------------------------------------------------------------ the store
Min(a, b) == IF a < b THEN a ELSE b

Range(s) == {s[i] : i \in 1..Len(s)}

TableExists == \E t \in tables : t.name = "messages"

\* a schema statement that replaces the table: DROP TABLE, then CREATE TABLE
CreateOrReplaceTable(ts, rs) ==
  [tables |-> {t \in ts : t.name # "messages"} \cup {MessagesTable},
   rows |-> <<>>]

\* CREATE TABLE IF NOT EXISTS messages (...): the store after the statement
CreateTableIfNotExists(ts, rs) ==
  IF \E t \in ts : t.name = "messages"
  THEN [tables |-> ts, rows |-> rs]
  ELSE [tables |-> ts \cup {MessagesTable}, rows |-> <<>>]

\* a counter that does not move: the next row gets the same id
AutoIncrementStuck(n) == n

\* id INT AUTO_INCREMENT: the counter after it handed out n
AutoIncrement(n) == n + 1

\* INSERT INTO messages (message) VALUES (%s): the row the store builds,
\* id from the counter, created_at DEFAULT CURRENT_TIMESTAMP
InsertRow(m, id, now) == [id |-> id, message |-> m, created_at |-> now]

\* commit: the pending rows of the connection become visible
CommitRows(rs, pending) == rs \o pending

RECURSIVE Perms(_)
Perms(S) ==
  IF S = {} THEN {<<>>}
  ELSE UNION {{<<x>> \o p : p \in Perms(S \ {x})} : x \in S}

\* ORDER BY created_at DESC: every order the store may produce; rows of
\* equal created_at come in any order, the statement names no tie-break.
\* The rows of second t, then those of the seconds before it down to lo.
RECURSIVE OrderFrom(_, _, _)
OrderFrom(S, t, lo) ==
  IF t < lo THEN {<<>>}
  ELSE LET G == {r \in S : r.created_at = t}
       IN IF G = {} THEN OrderFrom(S, t - 1, lo)
          ELSE {p \o q : p \in Perms(G), q \in OrderFrom(S \ G, t - 1, lo)}

OrderByCreatedAtDesc(S) ==
  IF S = {} THEN {<<>>}
  ELSE LET T == {r.created_at : r \in S}
           hi == CHOOSE t \in T : \A u \in T : u <= t
           lo == CHOOSE t \in T : \A u \in T : t <= u
       IN OrderFrom(S, hi, lo)

\* LIMIT n
LimitTo(s, n) == SubSeq(s, 1, Min(n, Len(s)))

\* SELECT message FROM messages ORDER BY created_at DESC LIMIT 50
SelectMessages(rs) ==
  {[i \in 1..Len(s) |-> s[i].message] :
     s \in {LimitTo(o, Limit) : o \in OrderByCreatedAtDesc(Range(rs))}}

\* ------------------------------------------------------- the responses
NoReq == [kind |-> None, body |-> None, new_message |-> None]
NoResp == [status |-> 0, body |-> [none |-> TRUE]]

\* `if new_message is None`: the empty string passes
NewMessageIsNone(m) == m = None

\* `if not new_message`
NotNewMessage(m) == m = None \/ m = ""

\* render_template('index.html', messages=messages)
IndexReturn(ms) ==
  [status |-> 200, body |-> [template |-> "index.html", messages |-> ms]]
\* an except clause that fails the request
IndexExceptFails(e) ==
  [status |-> 500, body |-> [template |-> "index.html", messages |-> <<>>]]

\* except Exception as e: render_template('index.html', messages=[])
IndexExcept(e) ==
  [status |-> 200, body |-> [template |-> "index.html", messages |-> <<>>]]
SubmitRequired == [status |-> 400, body |-> [error |-> "Message is required"]]
SubmitReturn(m) ==
  [status |-> 200, body |-> [message |-> m, status |-> "success"]]
\* except Exception as e: e is printed, the body is fixed
SubmitExcept(e) ==
  [status |-> 500, body |-> [error |-> "Failed to submit message"]]
HealthReturn ==
  [status |-> 200, body |-> [status |-> "healthy", database |-> "connected"]]
\* an except clause that answers 200
HealthExceptOk(e) ==
  [status |-> 200,
   body |-> [status |-> "unhealthy", database |-> "disconnected"]]

\* the bare except of health()
HealthExcept(e) ==
  [status |-> 500,
   body |-> [status |-> "unhealthy", database |-> "disconnected"]]

\* ---------------------------------------- the store calls of a try block
IndexCalls == <<"cursor", "execute", "fetchall", "close">>
SubmitCalls == <<"cursor", "execute", "commit", "close">>
HealthCalls == <<"cursor", "execute", "close">>
InitDbCalls == <<"cursor", "execute", "commit", "close">>

Pos(cs, c) == CHOOSE i \in 1..Len(cs) : cs[i] = c

\* the calls a try block makes when `stop` is the call that raises
\* (None: no call raises)
Made(cs, stop) == IF stop = None THEN cs ELSE SubSeq(cs, 1, Pos(cs, stop))

\* call c of the try block was made and returned
Ok(cs, stop, c) == stop = None \/ Pos(cs, c) < Pos(cs, stop)

\* the cursor `cur` when the handler returns: cur.close() is the last call
\* of the try block and is skipped when an earlier call raises; a close()
\* that raises leaves the cursor in either state
CursorAtReturn(cs, stop) ==
  IF ~Ok(cs, stop, "cursor") THEN {"none"}
  ELSE IF stop = None THEN {"closed"}
  ELSE IF stop = "close" THEN {"open", "closed"}
  ELSE {"open"}

\* the exceptions the call that raises may raise (none when none raises)
Raises(stop) == IF stop = None THEN {None} ELSE StoreErrors

\* ---------------------------------------------------------------- Init
\* rows 1..n of an earlier run, one a second, the last in the current second
Earlier(n) ==
  [i \in 1..n |-> [id |-> i,
                   message |-> IF i % 2 = 1 THEN "a" ELSE "b",
                   created_at |-> i - n]]


NoReturn == [req |-> NoReq, resp |-> NoResp, cur |-> "none", raised |-> None,
             calls |-> <<>>, fetched |-> <<>>]

\* the service starts on a database that holds n rows of an earlier run
\* (on one without the table, too, when n = 0)
InitWith(n) ==
  /\ tables \in IF n = 0 THEN {{}, {MessagesTable}} ELSE {{MessagesTable}}
  /\ rows = Earlier(n)
  /\ nextId = n + 1
  /\ clock = 0
  /\ submits = 0
  /\ pc = [w \in Workers |-> "idle"]
  /\ req = [w \in Workers |-> NoReq]
  /\ cur = [w \in Workers |-> "none"]
  /\ txn = [w \in Workers |-> <<>>]
  /\ returned = NoReturn

Init == InitWith(0)

\* one row short of the LIMIT of index()
InitLimit == InitWith(Limit - 1)

\* the handler of thread w returns: `r` is recorded, the application context
\* is torn down and its connection closed, which rolls back what the request
\* did not commit
Return(w, r) ==
  /\ returned' = r
  /\ pc' = [pc EXCEPT ![w] = "idle"]
  /\ req' = [req EXCEPT ![w] = NoReq]
  /\ cur' = [cur EXCEPT ![w] = "none"]
  /\ txn' = [txn EXCEPT ![w] = <<>>]

\* ------------------------------------------------------------- index()
Index(w) ==
  /\ pc[w] = "idle"
  /\ LET selected == SelectMessages(rows) IN
     \E stop \in Range(IndexCalls) \cup {None} : \E e \in Raises(stop) :
       /\ Ok(IndexCalls, stop, "execute") => TableExists
       /\ \E c \in CursorAtReturn(IndexCalls, stop) :
          \E ms \in (IF Ok(IndexCalls, stop, "fetchall")
                     THEN selected ELSE {<<>>}) :
            Return(w, [req |-> [NoReq EXCEPT !.kind = "index"],
                       resp |-> IF stop = None THEN IndexReturn(ms)
                                               ELSE IndexExcept(e),
                       cur |-> c, raised |-> stop,
                       calls |-> Made(IndexCalls, stop), fetched |-> ms])
  /\ UNCHANGED <<storeVars, submits>>

\* ------------------------------------------------------------ submit()
\* lines 50-60: read new_message from the JSON or the form body, validate,
\* acquire the cursor and execute the INSERT
SubmitInsert(w) ==
  /\ pc[w] = "idle"
  /\ \E k \in BodyKinds :
     \E m \in (IF k = "json_malformed" THEN {None} ELSE NewMessageValues) :
     LET r == [kind |-> "submit", body |-> k, new_message |-> m]
         early == [NoReturn EXCEPT !.req = r]
     IN
       IF k = "json_malformed"
       THEN \* request.json raises BadRequest inside the try block
            /\ Return(w, [early EXCEPT !.resp = SubmitExcept("BadRequest"),
                                       !.raised = "request.json"])
            /\ UNCHANGED <<nextId, submits>>
       ELSE IF NotNewMessage(m)
       THEN /\ Return(w, [early EXCEPT !.resp = SubmitRequired])
            /\ UNCHANGED <<nextId, submits>>
       ELSE /\ submits < MaxSubmits
            /\ submits' = submits + 1
            /\ \E stop \in {"cursor", "execute", None} : \E e \in Raises(stop) :
                 /\ stop = None => TableExists
                 /\ IF stop = None
                    THEN /\ req' = [req EXCEPT ![w] = r]
                         /\ cur' = [cur EXCEPT ![w] = "open"]
                         /\ txn' = [txn EXCEPT ![w] =
                                      <<InsertRow(m, nextId, clock)>>]
                         /\ nextId' = AutoIncrement(nextId)
                         /\ pc' = [pc EXCEPT ![w] = "commit"]
                         /\ UNCHANGED returned
                    ELSE /\ \E c \in CursorAtReturn(SubmitCalls, stop) :
                              Return(w, [early EXCEPT
                                           !.resp = SubmitExcept(e),
                                           !.cur = c, !.raised = stop,
                                           !.calls = Made(SubmitCalls, stop)])
                         /\ UNCHANGED nextId
  /\ UNCHANGED <<tables, rows, clock>>

\* lines 61-67: commit, close the cursor, answer
SubmitCommit(w) ==
  /\ pc[w] = "commit"
  /\ \E stop \in {"commit", "close", None} : \E e \in Raises(stop) :
       /\ rows' = IF Ok(SubmitCalls, stop, "commit")
                  THEN CommitRows(rows, txn[w]) ELSE rows
       /\ \E c \in CursorAtReturn(SubmitCalls, stop) :
            Return(w, [NoReturn EXCEPT
                         !.req = req[w],
                         !.resp = IF stop = None
                                  THEN SubmitReturn(req[w].new_message)
                                  ELSE SubmitExcept(e),
                         !.cur = c, !.raised = stop,
                         !.calls = Made(SubmitCalls, stop)])
  /\ UNCHANGED <<tables, nextId, clock, submits>>

\* ------------------------------------------------------------ health()
\* SELECT 1 needs no table
Health(w) ==
  /\ pc[w] = "idle"
  /\ \E stop \in Range(HealthCalls) \cup {None} : \E e \in Raises(stop) :
     \E c \in CursorAtReturn(HealthCalls, stop) :
       Return(w, [NoReturn EXCEPT
                    !.req = [NoReq EXCEPT !.kind = "health"],
                    !.resp = IF stop = None THEN HealthReturn
                                            ELSE HealthExcept(e),
                    !.cur = c, !.raised = stop,
                    !.calls = Made(HealthCalls, stop)])
  /\ UNCHANGED <<storeVars, submits>>

\* ----------------------------------------------------------- init_db()
\* the process starts (or restarts): nothing is answered, the outcome is
\* printed; CREATE TABLE commits implicitly
InitDb(w) ==
  /\ pc[w] = "idle"
  /\ \E stop \in Range(InitDbCalls) \cup {None} :
       /\ LET s == IF Ok(InitDbCalls, stop, "execute")
                   THEN CreateTableIfNotExists(tables, rows)
                   ELSE [tables |-> tables, rows |-> rows]
          IN /\ tables' = s.tables
             /\ rows' = s.rows
       /\ \E c \in CursorAtReturn(InitDbCalls, stop) :
            Return(w, [NoReturn EXCEPT
                         !.req = [NoReq EXCEPT !.kind = "init_db"],
                         !.cur = c, !.raised = stop,
                         !.calls = Made(InitDbCalls, stop)])
  /\ UNCHANGED <<nextId, clock, submits>>

\* CURRENT_TIMESTAMP moves on by a second
Tick ==
  /\ clock < MaxClock
  /\ clock' = clock + 1
  /\ UNCHANGED <<tables, rows, nextId, submits, threadVars, returned>>

Next ==
  \/ \E w \in Workers : Index(w)
  \/ \E w \in Workers : SubmitInsert(w)
  \/ \E w \in Workers : SubmitCommit(w)
  \/ \E w \in Workers : Health(w)
  \/ \E w \in Workers : InitDb(w)
  \/ Tick

Spec == Init /\ [][Next]_vars

SpecLimit == InitLimit /\ [][Next]_vars

TypeOK ==
  /\ \A w \in Workers : pc[w] \in {"idle", "commit"}
  /\ \A w \in Workers : cur[w] \in {"none", "open", "closed"}
  /\ \A w \in Workers : Len(txn[w]) <= 1
  /\ TableExists \/ rows = <<>>

\* ---------------------------------------------------------- the claims
\* `rows` changes only in steps that also record a return of submit or of
\* init_db, so while `returned` is a return of index or of health, `rows` is
\* the table that request ran against.
Kind == returned.req.kind
Status == returned.resp.status
Body == returned.resp.body

IndexAnswered == Kind = "index" /\ returned.raised = None

\* the committed row inserted last (the highest id)
Newest(rs) == CHOOSE r \in Range(rs) : \A q \in Range(rs) : q.id <= r.id

\* the rows of S from id i downwards
RECURSIVE DescFrom(_, _)
DescFrom(S, i) ==
  IF i < 1 THEN <<>>
  ELSE LET G == {r \in S : r.id = i}
       IN (IF G = {} THEN <<>> ELSE <<CHOOSE r \in G : TRUE>>)
          \o DescFrom(S, i - 1)

\* the messages of the min(n, k) rows inserted last, the newest first
MostRecent(rs, k) ==
  LET d == LimitTo(DescFrom(Range(rs), nextId - 1), k)
  IN [i \in 1..Len(d) |-> d[i].message]

\* a step in which a request of kind k returns; its threads are idle before
\* and after, and it is the only such step that leaves the clock alone
Returns(k) ==
  /\ returned'.req.kind = k
  /\ pc' = pc
  /\ clock' = clock
  /\ nextId' = nextId

\* C1: a GET / that answers from a non-empty table lists the message of the
\* row inserted last first, also when earlier rows carry its created_at.
C1_NewestListedFirst ==
  (IndexAnswered /\ rows # <<>>) =>
     /\ Body.messages # <<>>
     /\ Body.messages[1] = Newest(rows).message

\* C2: a POST /submit whose new_message is absent or empty, in a JSON or a
\* form body, is answered 400 with an error, makes no store call (no cursor,
\* no INSERT, no commit) and leaves the rows of messages as they were.
C2_EmptyMessageRejected ==
  [][(/\ Returns("submit")
      /\ returned'.req.body \in {"json", "form"}
      /\ returned'.req.new_message \in {None, ""})
     => /\ returned'.resp.status = 400
        /\ returned'.resp.body = [error |-> "Message is required"]
        /\ returned'.calls = <<>>
        /\ returned'.cur = "none"
        /\ returned'.raised = None
        /\ rows' = rows /\ tables' = tables /\ txn' = txn]_vars

C2_Witness ==
  /\ Kind = "submit" /\ returned.req.body = "form"
  /\ returned.req.new_message = ""
  /\ Status = 400
  /\ rows # <<>>

\* C3: GET / answers with exactly min(n, 50) messages, those of the
\* min(n, 50) rows inserted last, the newest first.
C3_FiftyMostRecent ==
  IndexAnswered => Body.messages = MostRecent(rows, Limit)

\* C4: a POST /submit with a non-empty new_message is answered 500 with the
\* fixed body 'Failed to submit message' when acquiring the cursor, the
\* INSERT or the commit raises, and otherwise 200 with the message echoed
\* and status 'success'.
C4_SubmitAnswer ==
  (/\ Kind = "submit"
   /\ returned.req.body \in {"json", "form"}
   /\ returned.req.new_message \in Messages)
  => IF returned.raised \in {"cursor", "execute", "commit"}
     THEN /\ Status = 500
          /\ Body = [error |-> "Failed to submit message"]
     ELSE /\ Status = 200
          /\ Body = [message |-> returned.req.new_message,
                     status |-> "success"]

\* C5: no handler returns with the cursor it acquired still open.
C5_CursorReleased == returned.cur # "open"

\* C6: GET / always answers 200 with the page: with the fetched messages
\* when no store call raised, with an empty list when one did.
C6_IndexAlways200 ==
  Kind = "index" =>
     /\ Status = 200
     /\ Body.template = "index.html"
     /\ returned.raised = None =>
          /\ Body.messages = returned.fetched
          /\ returned.fetched \in SelectMessages(rows)
     /\ returned.raised # None => Body.messages = <<>>

C6_Witness ==
  /\ Kind = "index"
  /\ returned.raised = "fetchall"
  /\ rows # <<>>
  /\ Status = 200 /\ Body.messages = <<>>

\* C7: in every step of every interleaving, each row of messages stays, in
\* its place, with its id, message and created_at, and ids are unique.
C7_AppendOnly ==
  [][/\ Len(rows) <= Len(rows')
     /\ \A i \in 1..Len(rows) : rows'[i] = rows[i]
     /\ \A i, j \in 1..Len(rows') :
          rows'[i].id = rows'[j].id => i = j]_vars

C7_Witness ==
  /\ Len(rows) >= 1
  /\ Kind = "init_db" /\ returned.raised = None
  /\ \E w \in Workers : pc[w] = "commit"

\* C8: init_db leaves exactly one messages table with the columns of the
\* statement; on a database that has the table (a second invocation) it
\* changes neither the table nor its rows, and running its statement again
\* changes nothing.
C8_InitDbIdempotent ==
  [][Returns("init_db") =>
       IF returned'.raised \in {"cursor", "execute"}
       THEN tables' = tables /\ rows' = rows
       ELSE /\ {t \in tables' : t.name = "messages"} = {MessagesTable}
            /\ TableExists => (tables' = tables /\ rows' = rows)
            /\ CreateTableIfNotExists(tables', rows')
                 = [tables |-> tables', rows |-> rows']]_vars

C8_Witness ==
  /\ Kind = "init_db" /\ returned.raised = None
  /\ returned.calls = InitDbCalls
  /\ rows # <<>>

\* C9: GET /health answers 200 healthy/connected exactly when no call of its
\* probe raised, 500 unhealthy/disconnected when one did, whatever it
\* raised, and never changes messages.
C9_Health ==
  [][Returns("health") =>
       /\ returned'.raised = None <=>
            /\ returned'.resp.status = 200
            /\ returned'.resp.body =
                 [status |-> "healthy", database |-> "connected"]
       /\ returned'.raised # None <=>
            /\ returned'.resp.status = 500
            /\ returned'.resp.body =
                 [status |-> "unhealthy", database |-> "disconnected"]
       /\ rows' = rows /\ tables' = tables /\ txn' = txn]_vars

C9_Witness ==
  /\ Kind = "health"
  /\ returned.raised = "execute"
  /\ Status = 500
  /\ rows # <<>>

\* C10: the answer of POST /submit agrees with the store: a request answered
\* 200 committed exactly one row, with the submitted message, and a request
\* answered 400 or 500 committed none.
C10_AnswerAgreesWithStore ==
  [][(/\ returned'.req.kind = "submit"
      /\ \/ Returns("submit")
         \/ \E w \in Workers : pc[w] = "commit" /\ pc'[w] = "idle")
     => /\ returned'.resp.status = 200 =>
             /\ Len(rows') = Len(rows) + 1
             /\ SubSeq(rows', 1, Len(rows)) = rows
             /\ rows'[Len(rows')].message = returned'.req.new_message
        /\ returned'.resp.status \in {400, 500} => rows' = rows]_vars
====
